---- MODULE Spec2Model ----
(***************************************************************************)
(* Model of the deployment-support scripts of the repository:              *)
(*   health_check.py           the readiness poller (check_health, main)   *)
(*   test_models.py            probe of the candidate model files, the     *)
(*                             fallback builder and its save (main)        *)
(*   create_fallback_model.py  the Railway fallback builder and its save   *)
(* Each script is a sequential program; it gets a specification of its    *)
(* own over the shared variables (the variables of the other scripts stay *)
(* at their initial value).                                                *)
(***************************************************************************)
EXTENDS Integers, Sequences, FiniteSets, TLC

VARIABLES
  pc,         \* position of the running script
  attempt,    \* health_check: loop variable of `for attempt in range(max_attempts)`
  gets,       \* health_check: number of requests.get calls issued so far
  firstOk,    \* health_check: 1-based attempt of the first status 200 (0: none yet)
  elapsed,    \* health_check: seconds since check_health was called
  success,    \* health_check: value returned by check_health ("none" before)
  exit_code,  \* health_check: argument of sys.exit ("none" before)
  script,     \* store: which script runs ("test_models", "create_fallback_model")
  models_dir, \* store: what the name `models` is on disk
  files,      \* store: content of each candidate file of test_model_loading
  dest,       \* store: content of the file save_fallback_model writes
  dest0,      \* store: content of that file when the script started
  dir0,       \* store: what `models` was when the script started
  path_i,     \* test_models: 1-based position of the loop `for path in model_paths`
  opened,     \* test_models: candidates on which open() was called
  working_model_path, \* test_models: first value returned by test_model_loading
  working_model,      \* test_models: second value returned by test_model_loading
  fallback_model,     \* store: model_data returned by the builder ("unset" before)
  builds,     \* store: calls of the fallback builder
  saves,      \* store: calls of save_fallback_model
  save_result,\* store: value returned by save_fallback_model ("none" before)
  fault,      \* store: the I/O step the environment made fail ("none": no fault)
  raised,     \* store: exception that escaped to the top level ("none": none)
  builder,    \* builder: which builder runs
  X_process,  \* builder: column 1 (Process) of X_train, one code per row
  y_env,      \* builder: rows of y_env so far, in hundredths
  y_circ,     \* builder: rows of y_circ so far, in hundredths
  row         \* builder: 1-based row of the running `for i in range(n_samples)`

healthVars == <<attempt, gets, firstOk, elapsed, success, exit_code>>

storeVars ==
  <<script, models_dir, files, dest, dest0, dir0, path_i, opened, working_model_path,
    working_model, fallback_model, builds, saves, save_result, fault, raised>>

genVars == <<builder, X_process, y_env, y_circ, row>>

vars == <<pc, healthVars, storeVars, genVars>>

(***************************************************************************)
(* health_check.py                                                         *)
(***************************************************************************)
max_attempts == 30
request_timeout == 5
sleep_interval == 2

\* What one requests.get can end in: a response with a status code, or a
\* requests.exceptions.RequestException (connection failure, timeout).
StatusCodes == {200, 404, 503}
RequestExceptions == {"ConnectionError", "Timeout"}

\* Mutant: requests.get called without its timeout, so a GET may outlast it.
GetDurationsNoTimeout == 0..(request_timeout + 1)

\* Seconds one requests.get(..., timeout=5) may take.
GetDurations == 0..request_timeout

HealthIdle ==
  /\ attempt = 0
  /\ gets = 0
  /\ firstOk = 0
  /\ elapsed = 0
  /\ success = "none"
  /\ exit_code = "none"

\* The store's variables while another script runs.
StoreIdle ==
  /\ script = "none"
  /\ models_dir = "absent"
  /\ files = <<>>
  /\ dest = "missing"
  /\ dest0 = "missing"
  /\ dir0 = "absent"
  /\ path_i = 1
  /\ opened = {}
  /\ working_model_path = "unset"
  /\ working_model = "unset"
  /\ fallback_model = "unset"
  /\ builds = 0
  /\ saves = 0
  /\ save_result = "none"
  /\ fault = "none"
  /\ raised = "none"

\* The builders' variables while another script runs.
GenIdle ==
  /\ builder = "none"
  /\ X_process = <<>>
  /\ y_env = <<>>
  /\ y_circ = <<>>
  /\ row = 1

InitHealth ==
  /\ pc = "for"
  /\ HealthIdle
  /\ StoreIdle
  /\ GenIdle

\* `for attempt in range(max_attempts)`: enter the body, or fall out of the
\* loop to `return False` once the range is exhausted.
ForAttempt ==
  /\ pc = "for"
  /\ IF attempt < max_attempts
       THEN /\ pc' = "get"
            /\ success' = success
       ELSE /\ pc' = "returned"
            /\ success' = FALSE
  /\ UNCHANGED <<attempt, gets, firstOk, elapsed, exit_code>>
  /\ UNCHANGED <<storeVars, genVars>>

\* requests.get answered with status 200: `return True`.
GetStatusOk(d) ==
  /\ pc = "get"
  /\ gets' = gets + 1
  /\ elapsed' = elapsed + d
  /\ firstOk' = IF firstOk = 0 THEN attempt + 1 ELSE firstOk
  /\ success' = TRUE
  /\ pc' = "returned"
  /\ UNCHANGED <<attempt, exit_code>>
  /\ UNCHANGED <<storeVars, genVars>>

\* Mutant: any response counts as healthy (the status is not compared to 200).
GetAnyStatusReturnsTrue(code, d) ==
  /\ pc = "get"
  /\ code # 200
  /\ gets' = gets + 1
  /\ elapsed' = elapsed + d
  /\ success' = TRUE
  /\ pc' = "returned"
  /\ UNCHANGED <<attempt, firstOk, exit_code>>
  /\ UNCHANGED <<storeVars, genVars>>

\* requests.get answered with another status: the `if` is not taken and
\* control falls through to time.sleep.
GetStatusOther(code, d) ==
  /\ pc = "get"
  /\ code # 200
  /\ gets' = gets + 1
  /\ elapsed' = elapsed + d
  /\ pc' = "sleep"
  /\ UNCHANGED <<attempt, firstOk, success, exit_code>>
  /\ UNCHANGED <<storeVars, genVars>>

\* requests.get raised a RequestException: caught, printed, then time.sleep.
GetRaises(e, d) ==
  /\ pc = "get"
  /\ e \in RequestExceptions
  /\ gets' = gets + 1
  /\ elapsed' = elapsed + d
  /\ pc' = "sleep"
  /\ UNCHANGED <<attempt, firstOk, success, exit_code>>
  /\ UNCHANGED <<storeVars, genVars>>

\* time.sleep(2), then the next value of the loop variable.
Sleep ==
  /\ pc = "sleep"
  /\ elapsed' = elapsed + sleep_interval
  /\ attempt' = attempt + 1
  /\ pc' = "for"
  /\ UNCHANGED <<gets, firstOk, success, exit_code>>
  /\ UNCHANGED <<storeVars, genVars>>

\* Mutant: sys.exit(success), the boolean passed as the exit status.
ExitCodeIsSuccess(s) == IF s THEN 1 ELSE 0

\* sys.exit(0 if success else 1)
ExitCodeOf(s) == IF s THEN 0 ELSE 1

SysExit ==
  /\ pc = "returned"
  /\ exit_code' = ExitCodeOf(success)
  /\ pc' = "exited"
  /\ UNCHANGED <<attempt, gets, firstOk, elapsed, success>>
  /\ UNCHANGED <<storeVars, genVars>>

NextHealth ==
  \/ ForAttempt
  \/ \E d \in GetDurations : GetStatusOk(d)
  \/ \E code \in StatusCodes \ {200}, d \in GetDurations : GetStatusOther(code, d)
  \/ \E e \in RequestExceptions, d \in GetDurations : GetRaises(e, d)
  \/ Sleep
  \/ SysExit

SpecHealth == InitHealth /\ [][NextHealth]_vars

\* The script is one synchronous thread: every step it can take, it takes
\* (each GET ends within its timeout, each sleep returns).
FairSpecHealth == SpecHealth /\ WF_vars(NextHealth)

(***************************************************************************)
(* The artifact store: test_models.py (probe, build, save) and             *)
(* create_fallback_model.py (makedirs, build, save)                        *)
(***************************************************************************)
\* test_model_loading's candidate list, in its order (all under models/).
model_paths ==
  << "corrected_optimized_dual_target_model.pkl",
     "clean_optimized_dual_target_model.pkl",
     "lca_model.pkl",
     "final_optimized_lca_model.pkl" >>

PathNames == {model_paths[k] : k \in 1..Len(model_paths)}

\* What a candidate file can be: absent; present but open() fails;
\* present but pickle.load fails (corrupt, version-incompatible); a pickled
\* artifact; a pickle of the value None.
Contents == {"missing", "unreadable", "corrupt", "artifact", "pickled_none"}

\* os.path.exists(path)
Exists(c) == c # "missing"

\* Contents that open() and pickle.load() get through without an exception.
Loadable == {"artifact", "pickled_none"}

\* pickle.load(f) on a loadable content.
Unpickle(c) == IF c = "pickled_none" THEN "None" ELSE "artifact"

Scripts == {"test_models", "create_fallback_model"}

InitStore ==
  /\ HealthIdle
  /\ GenIdle
  /\ script \in Scripts
  /\ pc = IF script = "test_models" THEN "probe" ELSE "makedirs"
  /\ models_dir \in {"absent", "dir", "file"}
  /\ dir0 = models_dir
  /\ files \in [PathNames -> Contents]
  /\ (models_dir # "dir" \/ script # "test_models")
        => \A p \in PathNames : files[p] = "missing"
  /\ dest \in (IF models_dir = "dir" THEN {"missing", "artifact"} ELSE {"missing"})
  /\ dest0 = dest
  /\ path_i = 1
  /\ opened = {}
  /\ working_model_path = "unset"
  /\ working_model = "unset"
  /\ fallback_model = "unset"
  /\ builds = 0
  /\ saves = 0
  /\ save_result = "none"
  /\ fault = "none"
  /\ raised = "none"

Probing == script = "test_models" /\ pc = "probe" /\ path_i <= Len(model_paths)

\* Mutant: a missing candidate ends the search (break instead of continue).
ProbeStopAtMissing ==
  /\ Probing
  /\ ~Exists(files[model_paths[path_i]])
  /\ working_model_path' = "None"
  /\ working_model' = "None"
  /\ pc' = "main_if"
  /\ UNCHANGED <<script, models_dir, files, dest, dest0, dir0, path_i, opened,
                 fallback_model, builds, saves, save_result, fault, raised>>
  /\ UNCHANGED <<healthVars, genVars>>

\* `if os.path.exists(path)` is false: next candidate.
ProbeSkipMissing ==
  /\ Probing
  /\ ~Exists(files[model_paths[path_i]])
  /\ path_i' = path_i + 1
  /\ UNCHANGED <<pc, script, models_dir, files, dest, dest0, dir0, opened,
                 working_model_path, working_model, fallback_model, builds, saves,
                 save_result, fault, raised>>
  /\ UNCHANGED <<healthVars, genVars>>

\* open(path, 'rb') raises: caught by `except Exception`, next candidate.
ProbeOpenRaises ==
  /\ Probing
  /\ files[model_paths[path_i]] = "unreadable"
  /\ opened' = opened \cup {model_paths[path_i]}
  /\ path_i' = path_i + 1
  /\ UNCHANGED <<pc, script, models_dir, files, dest, dest0, dir0,
                 working_model_path, working_model, fallback_model, builds, saves,
                 save_result, fault, raised>>
  /\ UNCHANGED <<healthVars, genVars>>

\* Mutant: only pickle.UnpicklingError is caught, any other error of
\* pickle.load (EOFError, ModuleNotFoundError, ...) escapes.
ProbeLoadEscapes ==
  /\ Probing
  /\ files[model_paths[path_i]] = "corrupt"
  /\ opened' = opened \cup {model_paths[path_i]}
  /\ raised' = "EOFError"
  /\ pc' = "raised"
  /\ UNCHANGED <<script, models_dir, files, dest, dest0, dir0, path_i,
                 working_model_path, working_model, fallback_model, builds, saves,
                 save_result, fault>>
  /\ UNCHANGED <<healthVars, genVars>>

\* pickle.load(f) raises: caught by `except Exception`, next candidate.
ProbeLoadRaises ==
  /\ Probing
  /\ files[model_paths[path_i]] = "corrupt"
  /\ opened' = opened \cup {model_paths[path_i]}
  /\ path_i' = path_i + 1
  /\ UNCHANGED <<pc, script, models_dir, files, dest, dest0, dir0,
                 working_model_path, working_model, fallback_model, builds, saves,
                 save_result, fault, raised>>
  /\ UNCHANGED <<healthVars, genVars>>

\* open and pickle.load succeed: `return path, model`.
ProbeLoaded ==
  /\ Probing
  /\ files[model_paths[path_i]] \in Loadable
  /\ opened' = opened \cup {model_paths[path_i]}
  /\ working_model_path' = model_paths[path_i]
  /\ working_model' = Unpickle(files[model_paths[path_i]])
  /\ pc' = "main_if"
  /\ UNCHANGED <<script, models_dir, files, dest, dest0, dir0, path_i,
                 fallback_model, builds, saves, save_result, fault, raised>>
  /\ UNCHANGED <<healthVars, genVars>>

\* The loop ran out of candidates: `return None, None`.
ProbeExhausted ==
  /\ script = "test_models"
  /\ pc = "probe"
  /\ path_i > Len(model_paths)
  /\ working_model_path' = "None"
  /\ working_model' = "None"
  /\ pc' = "main_if"
  /\ UNCHANGED <<script, models_dir, files, dest, dest0, dir0, path_i, opened,
                 fallback_model, builds, saves, save_result, fault, raised>>
  /\ UNCHANGED <<healthVars, genVars>>

\* test_models main: `if working_model is None:` taken.
MainNoWorkingModel ==
  /\ script = "test_models"
  /\ pc = "main_if"
  /\ working_model = "None"
  /\ pc' = "build"
  /\ UNCHANGED storeVars
  /\ UNCHANGED <<healthVars, genVars>>

\* test_models main: the else branch, nothing built or written.
MainWorkingModel ==
  /\ script = "test_models"
  /\ pc = "main_if"
  /\ working_model # "None"
  /\ pc' = "done"
  /\ UNCHANGED storeVars
  /\ UNCHANGED <<healthVars, genVars>>

\* Calls of save_fallback_model after this step of the running script.
SavesAfterCall(sc) == IF script = sc THEN saves + 1 ELSE saves

\* create_fallback_model.py: os.makedirs('models', exist_ok=True), `models`
\* absent and created.
MakedirsCreates ==
  /\ pc = "makedirs"
  /\ models_dir = "absent"
  /\ models_dir' = "dir"
  /\ saves' = SavesAfterCall("create_fallback_model")
  /\ pc' = "build"
  /\ UNCHANGED <<script, files, dest, dest0, dir0, path_i, opened, working_model_path,
                 working_model, fallback_model, builds, save_result, fault, raised>>
  /\ UNCHANGED <<healthVars, genVars>>

\* os.makedirs with the directory already there: left untouched.
MakedirsExists ==
  /\ pc = "makedirs"
  /\ models_dir = "dir"
  /\ saves' = SavesAfterCall("create_fallback_model")
  /\ pc' = "build"
  /\ UNCHANGED <<script, models_dir, files, dest, dest0, dir0, path_i, opened,
                 working_model_path, working_model, fallback_model, builds,
                 save_result, fault, raised>>
  /\ UNCHANGED <<healthVars, genVars>>

\* os.makedirs where `models` is a regular file: FileExistsError. The call
\* is outside the try block, so the exception leaves save_fallback_model.
MakedirsFileExists ==
  /\ pc = "makedirs"
  /\ models_dir = "file"
  /\ saves' = SavesAfterCall("create_fallback_model")
  /\ raised' = "FileExistsError"
  /\ pc' = "raised"
  /\ UNCHANGED <<script, models_dir, files, dest, dest0, dir0, path_i, opened,
                 working_model_path, working_model, fallback_model, builds,
                 save_result, fault>>
  /\ UNCHANGED <<healthVars, genVars>>

\* os.makedirs refused by the file system (read-only or unwritable working
\* directory): PermissionError, outside the try block as well.
MakedirsDenied ==
  /\ pc = "makedirs"
  /\ models_dir = "absent"
  /\ saves' = SavesAfterCall("create_fallback_model")
  /\ fault' = "makedirs"
  /\ raised' = "PermissionError"
  /\ pc' = "raised"
  /\ UNCHANGED <<script, models_dir, files, dest, dest0, dir0, path_i, opened,
                 working_model_path, working_model, fallback_model, builds,
                 save_result>>
  /\ UNCHANGED <<healthVars, genVars>>

\* create_fallback_model() / create_simple_fallback_model(): the fitted
\* model_data mapping (its training data is modelled under SpecGen).
Build ==
  /\ pc = "build"
  /\ fallback_model' = "artifact"
  /\ builds' = builds + 1
  /\ pc' = "open"
  /\ UNCHANGED <<script, models_dir, files, dest, dest0, dir0, path_i, opened,
                 working_model_path, working_model, saves, save_result, fault, raised>>
  /\ UNCHANGED <<healthVars, genVars>>

\* open(<models/...>, 'wb') with no directory `models`: FileNotFoundError
\* (NotADirectoryError when `models` is a file), caught: `return False`.
OpenNoDirectory ==
  /\ pc = "open"
  /\ models_dir # "dir"
  /\ saves' = SavesAfterCall("test_models")
  /\ save_result' = FALSE
  /\ pc' = "done"
  /\ UNCHANGED <<script, models_dir, files, dest, dest0, dir0, path_i, opened,
                 working_model_path, working_model, fallback_model, builds, fault,
                 raised>>
  /\ UNCHANGED <<healthVars, genVars>>

\* open(..., 'wb') refused (permission denied): caught, `return False`; the
\* file is as it was.
OpenDenied ==
  /\ pc = "open"
  /\ models_dir = "dir"
  /\ saves' = SavesAfterCall("test_models")
  /\ fault' = "open"
  /\ save_result' = FALSE
  /\ pc' = "done"
  /\ UNCHANGED <<script, models_dir, files, dest, dest0, dir0, path_i, opened,
                 working_model_path, working_model, fallback_model, builds, raised>>
  /\ UNCHANGED <<healthVars, genVars>>

\* open(..., 'wb') succeeds: the file is created, or truncated to length 0.
OpenOk ==
  /\ pc = "open"
  /\ models_dir = "dir"
  /\ saves' = SavesAfterCall("test_models")
  /\ dest' = "empty"
  /\ pc' = "dump"
  /\ UNCHANGED <<script, models_dir, files, dest0, dir0, path_i, opened,
                 working_model_path, working_model, fallback_model, builds,
                 save_result, fault, raised>>
  /\ UNCHANGED <<healthVars, genVars>>

\* pickle.dump(model_data, f) and the close of the file succeed.
DumpOk ==
  /\ pc = "dump"
  /\ dest' = fallback_model
  /\ save_result' = TRUE
  /\ pc' = "done"
  /\ UNCHANGED <<script, models_dir, files, dest0, dir0, path_i, opened,
                 working_model_path, working_model, fallback_model, builds, saves,
                 fault, raised>>
  /\ UNCHANGED <<healthVars, genVars>>

\* pickle.dump or the flush on close fails (disk full, I/O error) after
\* `written` reached the disk: caught, `return False`; the file stays.
DumpFails(written) ==
  /\ pc = "dump"
  /\ written \in {"empty", "truncated"}
  /\ dest' = written
  /\ fault' = "dump"
  /\ save_result' = FALSE
  /\ pc' = "done"
  /\ UNCHANGED <<script, models_dir, files, dest0, dir0, path_i, opened,
                 working_model_path, working_model, fallback_model, builds, saves,
                 raised>>
  /\ UNCHANGED <<healthVars, genVars>>

NextStore ==
  \/ ProbeSkipMissing
  \/ ProbeOpenRaises
  \/ ProbeLoadRaises
  \/ ProbeLoaded
  \/ ProbeExhausted
  \/ MainNoWorkingModel
  \/ MainWorkingModel
  \/ MakedirsCreates
  \/ MakedirsExists
  \/ MakedirsFileExists
  \/ MakedirsDenied
  \/ Build
  \/ OpenNoDirectory
  \/ OpenDenied
  \/ OpenOk
  \/ DumpOk
  \/ \E written \in {"empty", "truncated"} : DumpFails(written)

SpecStore == InitStore /\ [][NextStore]_vars

(***************************************************************************)
(* The fallback builders' training targets:                                *)
(*   create_fallback_model         (test_models.py)                        *)
(*   create_simple_fallback_model  (create_fallback_model.py)              *)
(* Numbers are fixed-point, in hundredths (1.0 is 100). The random         *)
(* generator is seeded; the properties are about every value its draws     *)
(* can take, so each draw is a choice from a set. Only column 1 of X_train *)
(* flows into the targets; the other columns are not modelled.             *)
(***************************************************************************)
\* Rows of the training set (n_samples is 100 and 1000 in the source).
NSamples == 2

\* np.random.rand draws from [0, 1): RandSteps values spread from 0.00, the
\* least, to 0.99, the greatest that hundredths can tell from 1.
RandSteps == 2
RandDraws == {(k * 99) \div (RandSteps - 1) : k \in 0..(RandSteps - 1)}

\* np.random.normal(mu, sigma) is mu + sigma * z for a standard normal z;
\* z is drawn at ZMax standard deviations below and above the mean.
ZMax == 8
ZDraws == {0 - ZMax, ZMax}

Normal(mu, sigma, z) == mu + sigma * z

Max2(a, b) == IF a >= b THEN a ELSE b
Min2(a, b) == IF a <= b THEN a ELSE b

Builders == {"create_fallback_model", "create_simple_fallback_model"}

Rows == 1..NSamples

InitGen ==
  /\ HealthIdle
  /\ StoreIdle
  /\ builder \in Builders
  /\ pc = IF builder = "create_fallback_model" THEN "y_env" ELSE "X_train"
  /\ X_process = <<>>
  /\ y_env = <<>>
  /\ y_circ = <<>>
  /\ row = 1

\* test_models.py: y_env = np.random.rand(n_samples, 3) * [100, 10, 50]
FallbackEnvRow(u) == <<u[1] * 100, u[2] * 10, u[3] * 50>>

\* test_models.py: y_circ = np.random.rand(n_samples, 3) * [1, 100, 1]
FallbackCircRow(u) == <<u[1] * 1, u[2] * 100, u[3] * 1>>

FallbackDrawEnv(U) ==
  /\ builder = "create_fallback_model"
  /\ pc = "y_env"
  /\ y_env' = [i \in Rows |-> FallbackEnvRow(U[i])]
  /\ pc' = "y_circ"
  /\ UNCHANGED <<builder, X_process, y_circ, row>>
  /\ UNCHANGED <<healthVars, storeVars>>

FallbackDrawCirc(U) ==
  /\ builder = "create_fallback_model"
  /\ pc = "y_circ"
  /\ y_circ' = [i \in Rows |-> FallbackCircRow(U[i])]
  /\ pc' = "fit"
  /\ UNCHANGED <<builder, X_process, y_env, row>>
  /\ UNCHANGED <<healthVars, storeVars>>

\* create_fallback_model.py: X_train[:, 1] = np.random.randint(0, len(processes), n_samples)
SimpleDrawProcess(P) ==
  /\ builder = "create_simple_fallback_model"
  /\ pc = "X_train"
  /\ X_process' = P
  /\ row' = 1
  /\ pc' = "env_loop"
  /\ UNCHANGED <<builder, y_env, y_circ>>
  /\ UNCHANGED <<healthVars, storeVars>>

\* process_factor = 0.3 if X_train[i, 1] == 1 else 1.0, in tenths.
process_factor(code) == IF code = 1 THEN 3 ELSE 10

\* energy, emissions, water of one row and
\* y_env[i] = [max(1, energy), max(0.1, emissions), max(0.5, water)]
SimpleEnvRow(code, z) ==
  << Max2(100, Normal(500 * process_factor(code), 1500, z[1])),
     Max2(10, Normal(50 * process_factor(code), 200, z[2])),
     Max2(50, Normal(200 * process_factor(code), 800, z[3])) >>

\* base_circ = 0.8 if X_train[i, 1] == 1 else 0.3
base_circ(code) == IF code = 1 THEN 80 ELSE 30

\* The mean of recycled_content: 70 if X_train[i, 1] == 1 else 20
recycled_mean(code) == IF code = 1 THEN 7000 ELSE 2000

\* circularity, recycled_content, reuse_potential of one row and
\* y_circ[i] = [max(0, min(1, .)), max(0, min(100, .)), max(0, min(1, .))]
SimpleCircRow(code, z) ==
  << Max2(0, Min2(100, Normal(base_circ(code), 10, z[1]))),
     Max2(0, Min2(10000, Normal(recycled_mean(code), 1500, z[2]))),
     Max2(0, Min2(100, Normal(base_circ(code), 10, z[3]))) >>

\* One iteration of the first `for i in range(n_samples)` loop.
SimpleEnvLoop(z) ==
  /\ builder = "create_simple_fallback_model"
  /\ pc = "env_loop"
  /\ row <= NSamples
  /\ y_env' = Append(y_env, SimpleEnvRow(X_process[row], z))
  /\ row' = row + 1
  /\ UNCHANGED <<pc, builder, X_process, y_circ>>
  /\ UNCHANGED <<healthVars, storeVars>>

\* The first loop is over; the second one starts at row 0.
SimpleEnvDone ==
  /\ builder = "create_simple_fallback_model"
  /\ pc = "env_loop"
  /\ row > NSamples
  /\ row' = 1
  /\ pc' = "circ_loop"
  /\ UNCHANGED <<builder, X_process, y_env, y_circ>>
  /\ UNCHANGED <<healthVars, storeVars>>

\* One iteration of the second `for i in range(n_samples)` loop.
SimpleCircLoop(z) ==
  /\ builder = "create_simple_fallback_model"
  /\ pc = "circ_loop"
  /\ row <= NSamples
  /\ y_circ' = Append(y_circ, SimpleCircRow(X_process[row], z))
  /\ row' = row + 1
  /\ UNCHANGED <<pc, builder, X_process, y_env>>
  /\ UNCHANGED <<healthVars, storeVars>>

SimpleCircDone ==
  /\ builder = "create_simple_fallback_model"
  /\ pc = "circ_loop"
  /\ row > NSamples
  /\ pc' = "fit"
  /\ UNCHANGED <<builder, X_process, y_env, y_circ, row>>
  /\ UNCHANGED <<healthVars, storeVars>>

\* env_model.fit(X, y_env); circ_model.fit(X, y_circ); return model_data
FitAndReturn ==
  /\ pc = "fit"
  /\ builder \in Builders
  /\ pc' = "built"
  /\ UNCHANGED <<builder, X_process, y_env, y_circ, row>>
  /\ UNCHANGED <<healthVars, storeVars>>

NextGen ==
  \/ \E U \in [Rows -> [1..3 -> RandDraws]] : FallbackDrawEnv(U)
  \/ \E U \in [Rows -> [1..3 -> RandDraws]] : FallbackDrawCirc(U)
  \/ \E P \in [Rows -> 0..2] : SimpleDrawProcess(P)
  \/ \E z \in [1..3 -> ZDraws] : SimpleEnvLoop(z)
  \/ SimpleEnvDone
  \/ \E z \in [1..3 -> ZDraws] : SimpleCircLoop(z)
  \/ SimpleCircDone
  \/ FitAndReturn

SpecGen == InitGen /\ [][NextGen]_vars

\* Every row of the training targets built so far is within the declared ranges.
EnvPositive(y) == \A i \in DOMAIN y : \A j \in 1..3 : y[i][j] > 0

CircInRange(y) ==
  \A i \in DOMAIN y :
     /\ 0 <= y[i][1] /\ y[i][1] <= 100
     /\ 0 <= y[i][2] /\ y[i][2] <= 10000
     /\ 0 <= y[i][3] /\ y[i][3] <= 100

LoadableAt == {k \in 1..Len(model_paths) : files[model_paths[k]] \in Loadable}

FirstLoadable == CHOOSE m \in LoadableAt : \A n \in LoadableAt : m <= n

\* test_model_loading has returned.
ProbeReturned == script = "test_models" /\ pc \notin {"probe", "raised"}

\* save_fallback_model was called and control has left it.
SaveOver == saves = 1 /\ pc \in {"done", "raised"}

\* C2: test_model_loading returns (path, model) of the lowest-index
\* candidate that exists and deserializes; the missing and failing ones
\* before it are skipped and no candidate after it is ever opened.
C2_FirstAvailable ==
  (script = "test_models" /\ LoadableAt # {}) =>
     LET m == FirstLoadable IN
       /\ opened \subseteq {model_paths[k] : k \in 1..m}
       /\ pc # "raised"
       /\ ProbeReturned =>
            /\ working_model_path = model_paths[m]
            /\ working_model = Unpickle(files[model_paths[m]])
            /\ model_paths[m] \in opened

\* C2 witness: [missing, corrupt, good, good] returned the third candidate
\* and never opened the fourth.
C2_Witness ==
  /\ ProbeReturned
  /\ files[model_paths[1]] = "missing"
  /\ files[model_paths[2]] = "corrupt"
  /\ files[model_paths[3]] = "artifact"
  /\ files[model_paths[4]] = "artifact"
  /\ working_model_path = model_paths[3]
  /\ opened = {model_paths[2], model_paths[3]}

\* C6: when every candidate is missing, unreadable or fails to deserialize,
\* test_model_loading returns (None, None), and no error of a candidate
\* escapes it.
C6_NotFound ==
  script = "test_models" =>
     /\ raised = "none"
     /\ pc # "raised"
     /\ (pc # "probe" /\ LoadableAt = {}) =>
           (working_model_path = "None" /\ working_model = "None")

\* C6 witness: a missing, an unreadable and a corrupt candidate, none
\* loadable, and (None, None) came back.
C6_Witness ==
  /\ ProbeReturned
  /\ working_model_path = "None"
  /\ working_model = "None"
  /\ \E p \in PathNames : files[p] = "missing"
  /\ \E p \in PathNames : files[p] = "unreadable"
  /\ \E p \in PathNames : files[p] = "corrupt"

\* C3 (as stated): after any save, failed or not, the destination holds a
\* complete artifact or no file at all.
C3_Original == SaveOver => dest \in {"missing", "artifact"}

\* C4 (as stated): no error of a step of the save escapes; a failing step
\* makes save return False, and True means the artifact is fully written.
C4_Original ==
  SaveOver =>
     /\ raised = "none"
     /\ save_result \in BOOLEAN
     /\ fault # "none" => save_result = FALSE
     /\ save_result = TRUE => dest = "artifact"

\* C5 (as stated): a save whose containing directory does not exist yet
\* creates it, writes the artifact and returns success (no I/O fault
\* occurring), in both scripts.
C5_Original ==
  (SaveOver /\ dir0 = "absent" /\ fault = "none") =>
     /\ models_dir = "dir"
     /\ dest = "artifact"
     /\ save_result = TRUE

\* C10 (as stated): in test_models main the fallback is built and saved
\* exactly when no candidate loads: nothing is built or written when one
\* loads, one build and one save attempt when none does, and nothing is
\* written before the probe is over.
C10_Original ==
  script = "test_models" =>
     /\ pc \in {"probe", "main_if"} => (builds = 0 /\ saves = 0 /\ dest = dest0)
     /\ pc = "done" =>
          IF LoadableAt # {}
            THEN builds = 0 /\ saves = 0 /\ dest = dest0
            ELSE builds = 1 /\ saves = 1

(***************************************************************************)
(* Properties of health_check.py                                           *)
(***************************************************************************)
Returned == pc \in {"returned", "exited"}

\* C1: the result and the number of GETs of check_health are fixed by the
\* first attempt answered with status 200 (every other status and every
\* RequestException is a failed attempt): a first 200 on attempt k gives
\* True after exactly k GETs, no 200 within max_attempts gives False after
\* exactly max_attempts GETs, and no GET is issued after the return.
C1_PollResult ==
  /\ [](Returned =>
          /\ firstOk # 0 => (success = TRUE /\ gets = firstOk /\ firstOk <= max_attempts)
          /\ firstOk = 0 => (success = FALSE /\ gets = max_attempts))
  /\ [][Returned => gets' = gets]_vars

\* C1 witness: two failed attempts, then a 200 on the third.
C1_Witness == Returned /\ firstOk = 3 /\ gets = 3 /\ success = TRUE

\* C7 (as stated): a call of check_health returns within
\* max_attempts * interval seconds.
C7_Original == Returned => elapsed <= max_attempts * sleep_interval

\* C7 (amended): a call of check_health returns within
\* max_attempts * (request timeout + interval) seconds.
C7_BoundedWait == Returned => elapsed <= max_attempts * (request_timeout + sleep_interval)

\* C7 witness: every GET ran into its timeout and the budget was exhausted.
C7_Witness ==
  /\ Returned
  /\ success = FALSE
  /\ elapsed = max_attempts * (request_timeout + sleep_interval)

\* C8: the entry point always exits, with code 0 exactly when a 200 was
\* received within the attempt budget and with code 1 exactly when the
\* budget was exhausted without one.
C8_ExitCode ==
  /\ [](pc = "exited" =>
          /\ exit_code \in {0, 1}
          /\ exit_code = 0 <=> (firstOk # 0 /\ firstOk <= max_attempts)
          /\ exit_code = 1 <=> (firstOk = 0 /\ gets = max_attempts))
  /\ <>(pc = "exited")

\* C8 witness: the budget ran out and the process exited with 1.
C8_Witness == pc = "exited" /\ exit_code = 1 /\ gets = max_attempts

====
